---- MODULE Spec2Model ----
(***************************************************************************)
(* TurboPDF: the PdfRenderer of src/src/lib.rs as a state machine.         *)
(*                                                                         *)
(* Numbers.  The source computes in f32/f64.  The model uses integers:     *)
(* page boxes, zoom factors, operator operands and matrices are integers,  *)
(* for which the float arithmetic of the source is exact.  Colour          *)
(* components are the dyadic fractions k/Den (exact in f32, as are their   *)
(* products with 255), font sizes are even so that size * 0.5 is exact.    *)
(*                                                                         *)
(* Surface.  The HTML canvas is external; `ctx` models the part of its     *)
(* state the renderer's calls act on (size, current transform, save stack, *)
(* current path, font).  Path points are stored in device (pixel) space,   *)
(* i.e. after the current transform, as the canvas does.                   *)
(***************************************************************************)
EXTENDS Integers, Sequences, FiniteSets, TLC

VARIABLES
    pdf_data,      \* PdfRenderer.pdf_data: the bytes last handed to load_pdf
    current_page,  \* PdfRenderer.current_page
    total_pages,   \* PdfRenderer.total_pages
    pdf_file,      \* PdfRenderer.pdf_file: <<>> is None, <<doc>> is Some(doc)
    result,        \* what the last public call returned
    calls,         \* the surface calls issued by the last step
    ctx,           \* the canvas the renderer draws on
    text_state,    \* the TextState of the (last) render call
    rendered,      \* history: the first render of each (page, zoom) since the load
    replay,        \* operator replay: page height, zoom, operators done, last one
    conv           \* colour conversion: input colour and output triple

vars == <<pdf_data, current_page, total_pages, pdf_file, result, calls, ctx,
          text_state, rendered, replay, conv>>

----------------------------------------------------------------------------
(* Bounds *)

MaxPageArg == 2
MaxZoom == 2
MaxOps == 3
GridBits == 2

Den == 2 ^ GridBits
Zooms == 1 .. MaxZoom
PageArgs == 0 .. MaxPageArg
\* Byte buffers given to load_pdf: 0 is the empty buffer, 1 .. 5 are the
\* sample documents of Parse.
Datas == 0 .. 5
\* Zoom factors passed to renderPage through the public API.
RenderZooms == {1, 2}

----------------------------------------------------------------------------
(* Sequences *)

RECURSIVE Flatten(_)
Flatten(ss) == IF ss = <<>> THEN <<>> ELSE Head(ss) \o Flatten(Tail(ss))

Last(s) == s[Len(s)]

----------------------------------------------------------------------------
(* Affine matrices <<a, b, c, d, e, f>>:  x' = a x + c y + e,              *)
(*                                        y' = b x + d y + f               *)

Identity == <<1, 0, 0, 1, 0, 0>>

\* m1 * m2: the map that applies m2 first, then m1 (canvas post-multiplies).
MatMul(m1, m2) ==
    << m1[1] * m2[1] + m1[3] * m2[2],
       m1[2] * m2[1] + m1[4] * m2[2],
       m1[1] * m2[3] + m1[3] * m2[4],
       m1[2] * m2[3] + m1[4] * m2[4],
       m1[1] * m2[5] + m1[3] * m2[6] + m1[5],
       m1[2] * m2[5] + m1[4] * m2[6] + m1[6] >>

MatApply(m, x, y) == << m[1] * x + m[3] * y + m[5], m[2] * x + m[4] * y + m[6] >>

----------------------------------------------------------------------------
(* Surface calls and operators *)

Call(fn, args) == [fn |-> fn, args |-> args, s |-> "", text |-> <<>>]
CallS(fn, s) == [fn |-> fn, args |-> <<>>, s |-> s, text |-> <<>>]
CallT(fn, text, args) == [fn |-> fn, args |-> args, s |-> "", text |-> text]

Op(op, args) == [op |-> op, args |-> args, s |-> ""]
OpS(op, s, args) == [op |-> op, args |-> args, s |-> s]

\* An item of a content stream that pdf::content::parse_ops cannot parse.
Unparsable == Op("Unparsable", <<>>)

----------------------------------------------------------------------------
(* TextState *)

\* Mutant of TextStateNew: the TextState left by the previous render call is
\* reused instead of a fresh one.
TextStateStale == text_state

TextStateNew ==
    [ font_size |-> 12,
      font_name |-> "sans-serif",
      text_matrix |-> Identity,
      text_leading |-> 0,
      char_spacing |-> 0,
      word_spacing |-> 0,
      horizontal_scaling |-> 100,
      text_rise |-> 0 ]

TextStateReset_All(ts) ==
    [ts EXCEPT !.text_matrix = Identity, !.font_size = 12, !.char_spacing = 0,
               !.word_spacing = 0, !.text_rise = 0]

TextStateReset(ts) == [ts EXCEPT !.text_matrix = Identity]

----------------------------------------------------------------------------
(* Colour conversion.  A colour is [model, comps], comps the numerators    *)
(* of its components over Den.                                             *)

\* Rust `x as u8` for x = num/den: truncate toward zero, saturate to 0..255.
AsU8(num, den) ==
    IF num <= 0 THEN 0
    ELSE IF num \div den > 255 THEN 255
    ELSE num \div den

color_to_css(color) ==
    LET c == color.comps IN
    CASE color.model = "Gray" ->
           LET val == AsU8(c[1] * 255, Den) IN <<val, val, val>>
      [] color.model = "Rgb" ->
           << AsU8(c[1] * 255, Den), AsU8(c[2] * 255, Den), AsU8(c[3] * 255, Den) >>
      [] color.model = "Cmyk" ->
           << AsU8((Den - c[1]) * (Den - c[4]) * 255, Den * Den),
              AsU8((Den - c[2]) * (Den - c[4]) * 255, Den * Den),
              AsU8((Den - c[3]) * (Den - c[4]) * 255, Den * Den) >>
      [] OTHER -> <<0, 0, 0>>

----------------------------------------------------------------------------
(* Text decoding: PdfString::to_string_lossy, then String::len.            *)
(* A byte run without a UTF-16 byte-order mark is decoded as lossy UTF-8.  *)
(* The model covers ASCII bytes, two-byte sequences (lead 0xC2..0xDF,      *)
(* continuation 0x80..0xBF) and bytes that are invalid on their own; each  *)
(* invalid byte becomes U+FFFD.                                            *)

IsLead2(b) == b >= 194 /\ b <= 223
IsCont(b) == b >= 128 /\ b <= 191

RECURSIVE to_string_lossy(_)
to_string_lossy(bytes) ==
    IF bytes = <<>> THEN <<>>
    ELSE LET b == Head(bytes) IN
         IF b < 128 THEN <<b>> \o to_string_lossy(Tail(bytes))
         ELSE IF IsLead2(b) /\ Len(bytes) >= 2 /\ IsCont(bytes[2])
              THEN << (b - 192) * 64 + (bytes[2] - 128) >>
                   \o to_string_lossy(Tail(Tail(bytes)))
              ELSE <<65533>> \o to_string_lossy(Tail(bytes))

\* char::len_utf8
Utf8Len(cp) == IF cp < 128 THEN 1 ELSE IF cp < 2048 THEN 2 ELSE IF cp < 65536 THEN 3 ELSE 4

\* String::len: the length of the string in bytes of its UTF-8 encoding.
RECURSIVE StrLen(_)
StrLen(str) == IF str = <<>> THEN 0 ELSE Utf8Len(Head(str)) + StrLen(Tail(str))

----------------------------------------------------------------------------
(* render_operation: one operator, the surface calls it issues and the     *)
(* TextState it leaves.  It returns Ok(()) in every arm.                   *)

Emit(cs, ts) == [calls |-> cs, ts |-> ts]

LineCapStr(cap) ==
    CASE cap = "Butt" -> "butt" [] cap = "Round" -> "round" [] cap = "Square" -> "square"

LineJoinStr(join) ==
    CASE join = "Miter" -> "miter" [] join = "Round" -> "round" [] join = "Bevel" -> "bevel"

\* Op::TextDraw.  horizontal_scaling / 100.0 is written as an integer
\* quotient: exact for the multiples of 100.
TextDraw(text, ts) ==
    LET text_str == to_string_lossy(text)
        text_width == (StrLen(text_str) * ts.font_size) \div 2
    IN  Emit( << Call("save", <<>>), Call("transform", ts.text_matrix) >>
              \o (IF ts.horizontal_scaling # 100
                  THEN << Call("scale", <<ts.horizontal_scaling \div 100, 1>>) >>
                  ELSE <<>>)
              \o (IF ts.text_rise # 0
                  THEN << Call("translate", <<0, ts.text_rise>>) >>
                  ELSE <<>>)
              \o << CallT("fill_text", text_str, <<0, 0>>), Call("restore", <<>>) >>,
              [ts EXCEPT !.text_matrix[5] = @ + text_width] )

\* Mutant of GraphicsState: a pop also takes the font size back to the
\* initial one.
GraphicsState_WithText(op, ts) ==
    IF op.op = "Save" THEN Emit(<<Call("save", <<>>)>>, ts)
    ELSE Emit(<<Call("restore", <<>>)>>, [ts EXCEPT !.font_size = 12])

\* Op::Save and Op::Restore
GraphicsState(op, ts) ==
    IF op.op = "Save" THEN Emit(<<Call("save", <<>>)>>, ts)
    ELSE Emit(<<Call("restore", <<>>)>>, ts)

PathPaint_KeepPath(op, ts) ==
    CASE op.op = "Stroke" -> Emit(<<Call("stroke", <<>>)>>, ts)
      [] op.op = "Fill" -> Emit(<<Call("fill", <<>>)>>, ts)
      [] op.op = "FillAndStroke" -> Emit(<<Call("fill", <<>>), Call("stroke", <<>>)>>, ts)
      [] op.op = "EndPath" -> Emit(<<>>, ts)

\* Op::Stroke, Op::Fill, Op::FillAndStroke and Op::EndPath
PathPaint(op, ts) ==
    CASE op.op = "Stroke" ->
           Emit(<<Call("stroke", <<>>), Call("begin_path", <<>>)>>, ts)
      [] op.op = "Fill" ->
           Emit(<<Call("fill", <<>>), Call("begin_path", <<>>)>>, ts)
      [] op.op = "FillAndStroke" ->
           Emit(<<Call("fill", <<>>), Call("stroke", <<>>), Call("begin_path", <<>>)>>, ts)
      [] op.op = "EndPath" -> Emit(<<Call("begin_path", <<>>)>>, ts)

\* Mutant of TextNewline: the line starts where the previous text ended.
TextNewline_KeepE(ts) ==
    Emit(<<>>, [ts EXCEPT !.text_matrix[6] = @ - ts.text_leading])

\* Op::TextNewline
TextNewline(ts) ==
    Emit(<<>>, [ts EXCEPT !.text_matrix[5] = 0,
                          !.text_matrix[6] = @ - ts.text_leading])

\* Mutant of Unsupported: set-leading and set-horizontal-scaling are stored.
Unsupported_Stored(op, ts) ==
    CASE op.op = "Leading" -> Emit(<<>>, [ts EXCEPT !.text_leading = op.args[1]])
      [] op.op = "TextScaling" -> Emit(<<>>, [ts EXCEPT !.horizontal_scaling = op.args[1]])
      [] OTHER -> Emit(<<>>, ts)

\* The catch-all arm: unsupported operations are ignored.
Unsupported(op, ts) == Emit(<<>>, ts)

render_operation(op, ts) ==
    CASE op.op \in {"Save", "Restore"} -> GraphicsState(op, ts)
      [] op.op = "Transform" -> Emit(<<Call("transform", op.args)>>, ts)
      [] op.op = "MoveTo" -> Emit(<<Call("move_to", op.args)>>, ts)
      [] op.op = "LineTo" -> Emit(<<Call("line_to", op.args)>>, ts)
      [] op.op = "CurveTo" -> Emit(<<Call("bezier_curve_to", op.args)>>, ts)
      [] op.op = "Rect" -> Emit(<<Call("rect", op.args)>>, ts)
      [] op.op = "Close" -> Emit(<<Call("close_path", <<>>)>>, ts)
      [] op.op \in {"Stroke", "Fill", "FillAndStroke", "EndPath"} -> PathPaint(op, ts)
      [] op.op = "StrokeColor" ->
           Emit(<<Call("set_stroke_style_str",
                       color_to_css([model |-> op.s, comps |-> op.args]))>>, ts)
      [] op.op = "FillColor" ->
           Emit(<<Call("set_fill_style_str",
                       color_to_css([model |-> op.s, comps |-> op.args]))>>, ts)
      [] op.op = "LineWidth" -> Emit(<<Call("set_line_width", op.args)>>, ts)
      [] op.op = "LineCap" -> Emit(<<CallS("set_line_cap", LineCapStr(op.s))>>, ts)
      [] op.op = "LineJoin" -> Emit(<<CallS("set_line_join", LineJoinStr(op.s))>>, ts)
      [] op.op = "MiterLimit" -> Emit(<<Call("set_miter_limit", op.args)>>, ts)
      [] op.op = "BeginText" -> Emit(<<>>, TextStateReset(ts))
      [] op.op = "EndText" -> Emit(<<>>, ts)
      [] op.op = "SetTextMatrix" -> Emit(<<>>, [ts EXCEPT !.text_matrix = op.args])
      [] op.op = "TextNewline" -> TextNewline(ts)
      [] op.op = "TextFont" ->
           Emit(<<Call("set_font", op.args)>>, [ts EXCEPT !.font_size = op.args[1]])
      [] op.op = "CharSpacing" -> Emit(<<>>, [ts EXCEPT !.char_spacing = op.args[1]])
      [] op.op = "WordSpacing" -> Emit(<<>>, [ts EXCEPT !.word_spacing = op.args[1]])
      [] op.op = "TextRise" -> Emit(<<>>, [ts EXCEPT !.text_rise = op.args[1]])
      [] op.op = "TextDraw" -> TextDraw(op.args, ts)
      [] op.op = "TextDrawAdjusted" -> Emit(<<>>, ts)
      [] OTHER -> Unsupported(op, ts)

----------------------------------------------------------------------------
(* The canvas: the effect of one surface call on the 2D context.           *)

CanvasDefault(w, h) ==
    [ width |-> w, height |-> h, ctm |-> Identity, stack |-> <<>>,
      path |-> <<>>, painted |-> <<>>, font |-> 10 ]

Seg(k, pts) == [k |-> k, pts |-> pts]

CanvasApply(c, call) ==
    LET a == call.args
        P(x, y) == MatApply(c.ctm, x, y)
    IN
    CASE call.fn = "set_width" -> CanvasDefault(a[1], c.height)
      [] call.fn = "set_height" -> CanvasDefault(c.width, a[1])
      [] call.fn = "save" ->
           [c EXCEPT !.stack = Append(@, [ctm |-> c.ctm, font |-> c.font])]
      [] call.fn = "restore" ->
           IF c.stack = <<>> THEN c
           ELSE [c EXCEPT !.ctm = Last(c.stack).ctm,
                          !.font = Last(c.stack).font,
                          !.stack = SubSeq(@, 1, Len(@) - 1)]
      [] call.fn = "scale" -> [c EXCEPT !.ctm = MatMul(@, <<a[1], 0, 0, a[2], 0, 0>>)]
      [] call.fn = "translate" -> [c EXCEPT !.ctm = MatMul(@, <<1, 0, 0, 1, a[1], a[2]>>)]
      [] call.fn = "transform" -> [c EXCEPT !.ctm = MatMul(@, a)]
      [] call.fn = "begin_path" -> [c EXCEPT !.path = <<>>]
      [] call.fn = "move_to" -> [c EXCEPT !.path = Append(@, Seg("M", P(a[1], a[2])))]
      [] call.fn = "line_to" -> [c EXCEPT !.path = Append(@, Seg("L", P(a[1], a[2])))]
      [] call.fn = "bezier_curve_to" ->
           [c EXCEPT !.path = Append(@, Seg("C", P(a[1], a[2]) \o P(a[3], a[4])
                                                 \o P(a[5], a[6])))]
      [] call.fn = "rect" ->
           [c EXCEPT !.path = Append(@, Seg("R", P(a[1], a[2]) \o P(a[1] + a[3], a[2])
                                                 \o P(a[1] + a[3], a[2] + a[4])
                                                 \o P(a[1], a[2] + a[4])))]
      [] call.fn = "close_path" -> [c EXCEPT !.path = Append(@, Seg("Z", <<>>))]
      [] call.fn \in {"fill", "stroke"} -> [c EXCEPT !.painted = c.path]
      [] call.fn = "set_font" -> [c EXCEPT !.font = a[1]]
      [] OTHER -> c

RECURSIVE CanvasRun(_, _)
CanvasRun(c, cs) == IF cs = <<>> THEN c ELSE CanvasRun(CanvasApply(c, Head(cs)), Tail(cs))

----------------------------------------------------------------------------
(* Documents.  The bytes given to load_pdf are an identifier; Parse is     *)
(* what FileOptions::cached().load makes of them: a document (a sequence   *)
(* of pages) or a parse error.  A page has a media box <<left, bottom,     *)
(* right, top>> (<<>> when it cannot be read) and, optionally, contents:   *)
(* a sequence of content-stream parts.  A part may fail to decode; when it *)
(* decodes, its items are operators, some of which may be unparsable.      *)

Part(items) == [decodable |-> TRUE, items |-> items]
BadPart(items) == [decodable |-> FALSE, items |-> items]
Page(box, parts) == [media_box |-> box, has_contents |-> TRUE, parts |-> parts]
EmptyPage(box) == [media_box |-> box, has_contents |-> FALSE, parts |-> <<>>]

RectFill == << Op("Rect", <<1, 1, 2, 2>>), Op("Fill", <<>>) >>

PageA == Page(<<0, 0, 4, 6>>,
              << Part(<< OpS("FillColor", "Rgb", <<Den, 0, 0>>) >> \o RectFill) >>)

PageB == Page(<<0, 0, 6, 4>>,
              << Part(<< Op("BeginText", <<>>), OpS("TextFont", "F1", <<10>>),
                         Op("TextDraw", <<65, 66>>) >>),
                 BadPart(<< Op("MoveTo", <<5, 5>>) >>),
                 Part(<< Op("MoveTo", <<1, 1>>), Unparsable, Op("Fill", <<>>) >>),
                 Part(<< Op("TextDraw", <<67, 68>>), Op("EndText", <<>>),
                         Op("MoveTo", <<1, 2>>), Op("LineTo", <<3, 2>>),
                         Op("Stroke", <<>>) >>) >>)

PageC == EmptyPage(<<1, 1, 5, 7>>)

PageD == Page(<<>>, << Part(RectFill) >>)

PageE == Page(<<0, 0, 4, 4>>,
              << Part(<< Op("Save", <<>>), Op("TextRise", <<2>>),
                         Op("TextDraw", <<195, 169>>), Op("Restore", <<>>),
                         Op("Restore", <<>>), Op("TextDraw", <<255>>) >>) >>)

\* One unparsable operator among the two valid ones, at each position.
PageF(pos) ==
    Page(<<0, 0, 4, 6>>,
         << Part(SubSeq(RectFill, 1, pos - 1) \o <<Unparsable>>
                 \o SubSeq(RectFill, pos, 2)) >>)

Malformed == [ok |-> FALSE, pages |-> <<>>]
Document(pages) == [ok |-> TRUE, pages |-> pages]

Parse(data) ==
    CASE data = 1 -> Document(<<PageA>>)
      [] data = 2 -> Document(<<PageB, PageC>>)
      [] data = 3 -> Document(<<PageE, PageD>>)
      [] data = 4 -> Document(<<PageF(1), PageF(2)>>)
      [] data = 5 -> Document(<<PageF(3)>>)
      [] OTHER -> Malformed

----------------------------------------------------------------------------
(* PdfRenderer *)

Self == [ pdf_data |-> pdf_data, current_page |-> current_page,
          total_pages |-> total_pages, pdf_file |-> pdf_file ]

Ok(op, arg, value) == [op |-> op, arg |-> arg, status |-> "ok", err |-> "", value |-> value]
Err(op, arg, msg) == [op |-> op, arg |-> arg, status |-> "err", err |-> msg, value |-> <<>>]

\* PdfRenderer::new
New == [pdf_data |-> 0, current_page |-> 0, total_pages |-> 0, pdf_file |-> <<>>]

\* Mutant of load_pdf: the current page survives a successful load.
load_pdf_keep_page(self, data) ==
    LET parsed == Parse(data) IN
    IF ~parsed.ok
    THEN [self |-> [self EXCEPT !.pdf_data = data],
          ret |-> Err("loadPdf", <<data>>, "Failed to parse PDF")]
    ELSE [self |-> [pdf_data |-> data,
                    total_pages |-> Len(parsed.pages),
                    current_page |-> self.current_page,
                    pdf_file |-> <<parsed>>],
          ret |-> Ok("loadPdf", <<data>>, <<>>)]

\* Mutant of load_pdf: a failed load zeroes the page count and keeps the
\* current page.
load_pdf_fail_zero_pages(self, data) ==
    LET parsed == Parse(data) IN
    IF ~parsed.ok
    THEN [self |-> [self EXCEPT !.pdf_data = data, !.total_pages = 0],
          ret |-> Err("loadPdf", <<data>>, "Failed to parse PDF")]
    ELSE [self |-> [pdf_data |-> data,
                    total_pages |-> Len(parsed.pages),
                    current_page |-> 0,
                    pdf_file |-> <<parsed>>],
          ret |-> Ok("loadPdf", <<data>>, <<>>)]

\* Mutant of load_pdf: a failed load drops the document and keeps the page
\* count.
load_pdf_fail_drops_file(self, data) ==
    LET parsed == Parse(data) IN
    IF ~parsed.ok
    THEN [self |-> [self EXCEPT !.pdf_data = data, !.pdf_file = <<>>],
          ret |-> Err("loadPdf", <<data>>, "Failed to parse PDF")]
    ELSE [self |-> [pdf_data |-> data,
                    total_pages |-> Len(parsed.pages),
                    current_page |-> 0,
                    pdf_file |-> <<parsed>>],
          ret |-> Ok("loadPdf", <<data>>, <<>>)]

load_pdf(self, data) ==
    LET parsed == Parse(data) IN
    IF ~parsed.ok
    THEN [self |-> [self EXCEPT !.pdf_data = data],
          ret |-> Err("loadPdf", <<data>>, "Failed to parse PDF")]
    ELSE [self |-> [pdf_data |-> data,
                    total_pages |-> Len(parsed.pages),
                    current_page |-> 0,
                    pdf_file |-> <<parsed>>],
          ret |-> Ok("loadPdf", <<data>>, <<>>)]

\* Mutant of set_current_page: the range check is off by one.
set_current_page_off_by_one(self, page) ==
    IF page > self.total_pages
    THEN [self |-> self, ret |-> Err("setCurrentPage", <<page>>, "Page number out of range")]
    ELSE [self |-> [self EXCEPT !.current_page = page],
          ret |-> Ok("setCurrentPage", <<page>>, <<>>)]

set_current_page(self, page) ==
    IF page >= self.total_pages
    THEN [self |-> self, ret |-> Err("setCurrentPage", <<page>>, "Page number out of range")]
    ELSE [self |-> [self EXCEPT !.current_page = page],
          ret |-> Ok("setCurrentPage", <<page>>, <<>>)]

\* pdf_file.get_page(n).media_box(), then right - left and top - bottom
MediaBoxOk(page) == page.media_box # <<>>
BaseWidth(page) == page.media_box[3] - page.media_box[1]
BaseHeight(page) == page.media_box[4] - page.media_box[2]

get_page_dimensions(self, page_num) ==
    IF page_num >= self.total_pages
    THEN Err("getPageDimensions", <<page_num>>, "Page number out of range")
    ELSE IF self.pdf_file = <<>>
    THEN Err("getPageDimensions", <<page_num>>, "PDF not loaded")
    ELSE LET page == self.pdf_file[1].pages[page_num + 1] IN
         IF ~MediaBoxOk(page)
         THEN Err("getPageDimensions", <<page_num>>, "Failed to get media box")
         ELSE Ok("getPageDimensions", <<page_num>>, <<BaseWidth(page), BaseHeight(page)>>)

----------------------------------------------------------------------------
(* render_page_content and render_page *)

\* stream.data(&resolver)
stream_data(part) == [ok |-> part.decodable, data |-> part.items]

\* pdf::content::parse_ops: Result<Vec<Op>>, the operators of the whole
\* part or an error.
parse_ops(data) ==
    IF \E i \in 1 .. Len(data) : data[i] = Unparsable
    THEN [ok |-> FALSE, operations |-> <<>>]
    ELSE [ok |-> TRUE, operations |-> data]

\* for operation in operations { render_operation(...) }
RECURSIVE replay_operations(_, _)
replay_operations(operations, acc) ==
    IF operations = <<>> THEN acc
    ELSE LET r == render_operation(Head(operations), acc.ts) IN
         replay_operations(Tail(operations), Emit(acc.calls \o r.calls, r.ts))

\* Mutant of replay_part: every part starts from a fresh TextState.
replay_part_fresh_state(part, acc) ==
    LET d == stream_data(part) IN
    IF ~d.ok THEN acc
    ELSE LET parsed == parse_ops(d.data) IN
         IF ~parsed.ok THEN acc
         ELSE replay_operations(parsed.operations, Emit(acc.calls, TextStateNew))

\* One iteration of the loop over contents.parts.
replay_part(part, acc) ==
    LET d == stream_data(part) IN
    IF ~d.ok THEN acc
    ELSE LET parsed == parse_ops(d.data) IN
         IF ~parsed.ok THEN acc
         ELSE replay_operations(parsed.operations, acc)

\* Mutant of replay_parts: the first part that fails ends the loop.
RECURSIVE replay_parts_abort(_, _)
replay_parts_abort(parts, acc) ==
    IF parts = <<>> THEN acc
    ELSE IF ~stream_data(Head(parts)).ok \/ ~parse_ops(stream_data(Head(parts)).data).ok
    THEN acc
    ELSE replay_parts_abort(Tail(parts), replay_part(Head(parts), acc))

RECURSIVE replay_parts(_, _)
replay_parts(parts, acc) ==
    IF parts = <<>> THEN acc
    ELSE replay_parts(Tail(parts), replay_part(Head(parts), acc))

\* Mutant of FlipCalls: the flip is issued before the translate.
FlipCalls_FlipFirst(height) ==
    << Call("save", <<>>), Call("scale", <<1, -1>>), Call("translate", <<0, height>>) >>

\* The coordinate set-up of render_page_content.
FlipCalls(height) ==
    << Call("save", <<>>), Call("translate", <<0, height>>), Call("scale", <<1, -1>>) >>

\* ts is <<>> when the page has no contents: no TextState is created.
render_page_content(page, height) ==
    IF page.has_contents
    THEN LET body == replay_parts(page.parts,
                                  Emit(<<Call("begin_path", <<>>)>>, TextStateNew))
         IN  [ calls |-> FlipCalls(height) \o body.calls \o <<Call("restore", <<>>)>>,
               ts |-> <<body.ts>> ]
    ELSE [ calls |-> FlipCalls(height) \o <<Call("restore", <<>>)>>, ts |-> <<>> ]

\* Rust `x as u32` for an integral x: saturate below at 0.
AsU32(x) == IF x < 0 THEN 0 ELSE x

\* Mutant of SetupCalls: the zoom is applied before the background is cleared.
SetupCalls_ScaleFirst(width, height, scale) ==
    << Call("set_width", <<width>>), Call("set_height", <<height>>),
       Call("scale", <<scale, scale>>),
       CallS("set_fill_style_str", "#ffffff"),
       Call("fill_rect", <<0, 0, width, height>>) >>

\* Resize, white background, zoom.
SetupCalls(width, height, scale) ==
    << Call("set_width", <<width>>), Call("set_height", <<height>>),
       CallS("set_fill_style_str", "#ffffff"),
       Call("fill_rect", <<0, 0, width, height>>),
       Call("scale", <<scale, scale>>) >>

RenderErr(page_num, scale, msg) ==
    [ret |-> Err("renderPage", <<page_num, scale>>, msg), calls |-> <<>>, ts |-> <<>>]

render_page(self, canvas_ok, page_num, scale) ==
    IF page_num >= self.total_pages
    THEN RenderErr(page_num, scale, "Page number out of range")
    ELSE IF self.pdf_file = <<>>
    THEN RenderErr(page_num, scale, "PDF not loaded")
    ELSE IF ~canvas_ok
    THEN RenderErr(page_num, scale, "Failed to get canvas context")
    ELSE LET page == self.pdf_file[1].pages[page_num + 1] IN
         IF ~MediaBoxOk(page)
         THEN RenderErr(page_num, scale, "Failed to get media box")
         ELSE LET width == AsU32(BaseWidth(page) * scale)
                  height == AsU32(BaseHeight(page) * scale)
                  content == render_page_content(page, BaseHeight(page))
              IN  [ ret |-> Ok("renderPage", <<page_num, scale>>, <<>>),
                    calls |-> SetupCalls(width, height, scale) \o content.calls,
                    ts |-> content.ts ]

----------------------------------------------------------------------------
(* The public API as a state machine *)

NoReplay ==
    [ height |-> 0, zoom |-> 0, n |-> 0, op |-> Op("", <<>>), pc |-> "off",
      fails |-> {}, cm |-> Identity, cstack |-> <<>> ]
NoConv == [color |-> [model |-> "", comps |-> <<>>], css |-> <<>>]
\* first[k]: the surface calls of the first successful render of k = (page,
\* zoom) of the loaded document, <<>> before it; again: the latest
\* successful render was of a (page, zoom) rendered before.
NotRendered == [first |-> [k \in PageArgs \X RenderZooms |-> <<>>], again |-> FALSE]

\* Before the first render call there is no TextState.
NoTextState ==
    [ font_size |-> 0, font_name |-> "", text_matrix |-> <<0, 0, 0, 0, 0, 0>>,
      text_leading |-> 0, char_spacing |-> 0, word_spacing |-> 0,
      horizontal_scaling |-> 0, text_rise |-> 0 ]

Init ==
    /\ pdf_data = New.pdf_data
    /\ current_page = New.current_page
    /\ total_pages = New.total_pages
    /\ pdf_file = New.pdf_file
    /\ result = Ok("new", <<>>, <<>>)
    /\ calls = <<>>
    /\ ctx = CanvasDefault(300, 150)
    /\ text_state = NoTextState
    /\ rendered = NotRendered
    /\ replay = NoReplay
    /\ conv = NoConv

SetSelf(self) ==
    /\ pdf_data' = self.pdf_data
    /\ current_page' = self.current_page
    /\ total_pages' = self.total_pages
    /\ pdf_file' = self.pdf_file

LoadPdf ==
    \E data \in Datas :
        LET r == load_pdf(Self, data) IN
        /\ SetSelf(r.self)
        /\ result' = r.ret
        /\ calls' = <<>>
        /\ rendered' = IF r.ret.status = "ok" THEN NotRendered ELSE rendered
        /\ UNCHANGED <<ctx, text_state, replay, conv>>

SetCurrentPage ==
    \E page \in PageArgs :
        LET r == set_current_page(Self, page) IN
        /\ SetSelf(r.self)
        /\ result' = r.ret
        /\ calls' = <<>>
        /\ UNCHANGED <<ctx, text_state, rendered, replay, conv>>

GetTotalPages ==
    /\ result' = Ok("getTotalPages", <<>>, <<total_pages>>)
    /\ calls' = <<>>
    /\ UNCHANGED <<pdf_data, current_page, total_pages, pdf_file, ctx, text_state,
                   rendered, replay, conv>>

GetCurrentPage ==
    /\ result' = Ok("getCurrentPage", <<>>, <<current_page>>)
    /\ calls' = <<>>
    /\ UNCHANGED <<pdf_data, current_page, total_pages, pdf_file, ctx, text_state,
                   rendered, replay, conv>>

GetPageDimensions ==
    \E page_num \in PageArgs :
        /\ result' = get_page_dimensions(Self, page_num)
        /\ calls' = <<>>
        /\ UNCHANGED <<pdf_data, current_page, total_pages, pdf_file, ctx, text_state,
                       rendered, replay, conv>>

RenderPage ==
    \E canvas_ok \in BOOLEAN, page_num \in PageArgs, scale \in RenderZooms :
        LET r == render_page(Self, canvas_ok, page_num, scale) IN
        /\ result' = r.ret
        /\ calls' = r.calls
        /\ ctx' = CanvasRun(ctx, r.calls)
        /\ text_state' = IF r.ts = <<>> THEN text_state ELSE r.ts[1]
        /\ rendered' = IF r.ret.status # "ok" THEN rendered
                       ELSE IF rendered.first[<<page_num, scale>>] = <<>>
                       THEN [first |-> [rendered.first EXCEPT ![<<page_num, scale>>] = r.calls],
                             again |-> FALSE]
                       ELSE [rendered EXCEPT !.again = TRUE]
        /\ UNCHANGED <<pdf_data, current_page, total_pages, pdf_file, replay, conv>>

Next ==
    \/ LoadPdf
    \/ SetCurrentPage
    \/ GetTotalPages
    \/ GetCurrentPage
    \/ GetPageDimensions
    \/ RenderPage

Spec == Init /\ [][Next]_vars

----------------------------------------------------------------------------
(* Claims about the public API, checked under Spec *)

PageAddressed == {"setCurrentPage", "renderPage", "getPageDimensions"}

\* C1: a page-addressed call (setCurrentPage, renderPage, pageDimensions)
\* with an index >= totalPages returns the range error, leaves currentPage,
\* totalPages and the loaded document as they were, and issues no surface
\* call (the canvas is untouched).
C1_RangeErrorNoMutation ==
    [][ (result'.op \in PageAddressed /\ result'.arg[1] >= total_pages)
        => /\ result'.status = "err"
           /\ result'.err = "Page number out of range"
           /\ current_page' = current_page
           /\ total_pages' = total_pages
           /\ pdf_file' = pdf_file
           /\ calls' = <<>>
           /\ ctx' = ctx ]_vars

\* C1 witness: with a document loaded and a page selected, a render of an
\* index past the last page was rejected.
C1_Witness ==
    /\ result.op = "renderPage"
    /\ result.status = "err"
    /\ result.arg[1] >= total_pages
    /\ total_pages = 2
    /\ current_page = 1

\* C2: a successful load leaves currentPage = 0 and totalPages = the page
\* count of the newly loaded document, whatever they were before.
C2_LoadResets ==
    [][ (result'.op = "loadPdf" /\ result'.status = "ok")
        => /\ current_page' = 0
           /\ pdf_file' = <<Parse(result'.arg[1])>>
           /\ total_pages' = Len(pdf_file'[1].pages) ]_vars

\* C2 witness: the two-page document has been loaded successfully.
C2_Witness ==
    /\ result.op = "loadPdf"
    /\ result.status = "ok"
    /\ total_pages = 2
    /\ current_page = 0

\* C3 (as claimed): after a load that fails on malformed bytes, the
\* previously loaded document, its page count and its current page are no
\* longer in effect.
C3_FailedLoadDiscards ==
    (result.op = "loadPdf" /\ result.status = "err")
        => (pdf_file = <<>> /\ total_pages = 0 /\ current_page = 0)

\* The page addressed by the last renderPage call (its index is in range).
RenderedPage == pdf_file[1].pages[result.arg[1] + 1]

RenderOk == result.op = "renderPage" /\ result.status = "ok"

\* C4: every successful render of a (page, zoom) of the loaded document
\* issues the same surface calls, with the same arguments, as the first
\* render of that (page, zoom) did, whatever was called in between.
C4_RenderDeterministic ==
    RenderOk => calls = rendered.first[result.arg]

\* C4 witness: a page whose content shows text has just been rendered for
\* the second time (or later) at the same zoom.
C4_Witness ==
    /\ RenderOk
    /\ rendered.again
    /\ \E i \in 1 .. Len(calls) : calls[i].fn = "fill_text"

\* The operators of the parts that decode and parse, in document order.
GoodPart(part) ==
    part.decodable /\ \A i \in 1 .. Len(part.items) : part.items[i] # Unparsable
ExpectedOps(page) ==
    Flatten([i \in 1 .. Len(page.parts) |->
                IF GoodPart(page.parts[i]) THEN page.parts[i].items ELSE <<>>])
CallsOf(ops) == replay_operations(ops, Emit(<<>>, TextStateNew)).calls

Contains(s, sub) ==
    \E i \in 0 .. Len(s) - Len(sub) : SubSeq(s, i + 1, i + Len(sub)) = sub

IsValidOp(item) == item # Unparsable

\* A single content stream with exactly one unparsable operator.
OneUnparsable(page) ==
    /\ page.has_contents
    /\ Len(page.parts) = 1
    /\ page.parts[1].decodable
    /\ Cardinality({i \in 1 .. Len(page.parts[1].items) :
                        page.parts[1].items[i] = Unparsable}) = 1

\* C5 (as claimed): rendering a content stream with one unparsable operator
\* among N valid ones issues the surface calls of the N valid operators, in
\* order, and returns success.
C5_ValidOperatorsRendered ==
    ( /\ result.op = "renderPage"
      /\ result.arg[1] < total_pages
      /\ result.err # "Failed to get canvas context"
      /\ OneUnparsable(RenderedPage) )
    => /\ result.status = "ok"
       /\ Contains(calls, CallsOf(SelectSeq(RenderedPage.parts[1].items, IsValidOp)))

\* C6: with the page index valid, a document loaded, the surface acquired and
\* the media box read, renderPage returns success whatever parts fail to
\* decode or parse, and between the set-up calls and the final restore it has
\* replayed exactly the operators of the parts that did not fail, in
\* document order.
C6_FailedPartsSkipped ==
    ( /\ result.op = "renderPage"
      /\ result.arg[1] < total_pages
      /\ pdf_file # <<>>
      /\ result.err \notin {"Failed to get canvas context", "Failed to get media box"} )
    => /\ result.status = "ok"
       /\ RenderedPage.has_contents
            => SubSeq(calls, 10, Len(calls) - 1) = CallsOf(ExpectedOps(RenderedPage))

\* C6 witness: a page with two failing parts (one undecodable, one
\* unparsable) and two good parts has been rendered successfully.
C6_Witness ==
    /\ RenderOk
    /\ Cardinality({i \in 1 .. Len(RenderedPage.parts) : ~GoodPart(RenderedPage.parts[i])}) = 2
    /\ Cardinality({i \in 1 .. Len(RenderedPage.parts) : GoodPart(RenderedPage.parts[i])}) = 2
    /\ \E i \in 1 .. Len(RenderedPage.parts) : ~RenderedPage.parts[i].decodable

NotSave(c) == c.fn # "save"

\* C7: a successful render of a page of width W and height H at zoom Z
\* issues, in this order, resize to (W*Z, H*Z), white fill of the whole
\* surface, scale(Z, Z), translate(0, H), scale(1, -1) (with one save between
\* the zoom and the translate); everything after that prefix is the calls of
\* the page's operators and the final restore, so the set-up is applied once
\* and no operator's call precedes it.
C7_SetupOrder ==
    RenderOk =>
        LET b == RenderedPage.media_box
            W == b[3] - b[1]
            H == b[4] - b[2]
            Z == result.arg[2]
        IN  /\ Len(calls) >= 9
            /\ SelectSeq(SubSeq(calls, 1, 8), NotSave)
                 = << Call("set_width", <<W * Z>>), Call("set_height", <<H * Z>>),
                      CallS("set_fill_style_str", "#ffffff"),
                      Call("fill_rect", <<0, 0, W * Z, H * Z>>),
                      Call("scale", <<Z, Z>>),
                      Call("translate", <<0, H>>),
                      Call("scale", <<1, -1>>) >>
            /\ SubSeq(calls, 9, Len(calls))
                 = (IF RenderedPage.has_contents
                    THEN <<Call("begin_path", <<>>)>> \o CallsOf(ExpectedOps(RenderedPage))
                    ELSE <<>>) \o <<Call("restore", <<>>)>>

\* C7 witness: a page with operators has been rendered at zoom 2.
C7_Witness ==
    /\ RenderOk
    /\ result.arg[2] = 2
    /\ RenderedPage.has_contents
    /\ Len(calls) > 12

----------------------------------------------------------------------------
(* Operator replay: one render_page call from the resize on, for a page    *)
(* whose operators are chosen one by one.  ReplayOp is one iteration of    *)
(* the operation loop of render_page_content, ReplayEnd the restore after  *)
(* the loops.  `calls` holds the calls of the last step, `ctx` the canvas  *)
(* they leave, `replay.op` the operator replayed last.  The renderer's     *)
(* fields are not read by the loop and stay as constructed.                *)

ReplayBoxes == { <<0, 0, 4, 6>>, <<1, 1, 5, 5>> }

ReplayOps ==
    { Op("Save", <<>>), Op("Restore", <<>>), Op("Transform", <<2, 0, 0, 2, 1, 1>>),
      Op("MoveTo", <<1, 2>>), Op("MoveTo", <<3, 0>>), Op("LineTo", <<3, 2>>),
      Op("CurveTo", <<1, 1, 2, 2, 3, 1>>), Op("Rect", <<1, 1, 2, 2>>), Op("Close", <<>>),
      Op("Stroke", <<>>), Op("Fill", <<>>), Op("FillAndStroke", <<>>), Op("EndPath", <<>>),
      OpS("StrokeColor", "Gray", <<2>>), OpS("FillColor", "Rgb", <<Den, 0, 0>>),
      Op("LineWidth", <<2>>), OpS("LineCap", "Round", <<>>), OpS("LineJoin", "Bevel", <<>>),
      Op("MiterLimit", <<4>>),
      Op("BeginText", <<>>), Op("EndText", <<>>), Op("SetTextMatrix", <<1, 0, 0, 1, 3, 5>>),
      Op("TextNewline", <<>>), OpS("TextFont", "F1", <<10>>), OpS("TextFont", "F2", <<24>>),
      Op("CharSpacing", <<1>>), Op("WordSpacing", <<2>>), Op("TextRise", <<2>>),
      Op("TextDraw", <<65, 66>>), Op("TextDraw", <<67, 68>>),
      Op("TextDraw", <<195, 169>>), Op("TextDraw", <<255>>),
      Op("TextDrawAdjusted", <<>>), Op("Leading", <<14>>), Op("TextScaling", <<150>>) }

\* The surface calls of render_operation that return a Result; the code
\* discards it with .ok(), so a failing call has no effect on the surface and
\* the operator carries on.
Fallible == {"transform", "scale", "translate", "fill_text"}

FailSets(cs) == SUBSET ({cs[i].fn : i \in 1 .. Len(cs)} \cap Fallible)

\* Mutant of Effective: the first failing call ends the operation, as a
\* `?` in place of `.ok()` would.
Effective_Abort(cs, fails) ==
    LET bad == {i \in 1 .. Len(cs) : cs[i].fn \in fails} IN
    IF bad = {} THEN cs
    ELSE SubSeq(cs, 1, (CHOOSE i \in bad : \A j \in bad : i <= j) - 1)

Effective(cs, fails) == SelectSeq(cs, LAMBDA c : c.fn \notin fails)

\* The transform the content has concatenated inside its open q scopes, and
\* the values saved by the content's own q operators.
ContentMatrix(r, op, fails) ==
    CASE op.op = "Transform" /\ "transform" \notin fails -> MatMul(r.cm, op.args)
      [] op.op = "Restore" /\ r.cstack # <<>> -> Last(r.cstack)
      [] OTHER -> r.cm

ContentStack(r, op) ==
    CASE op.op = "Save" -> Append(r.cstack, r.cm)
      [] op.op = "Restore" /\ r.cstack # <<>> -> SubSeq(r.cstack, 1, Len(r.cstack) - 1)
      [] OTHER -> r.cstack

InitReplay ==
    \E box \in ReplayBoxes, scale \in Zooms :
        LET page == Page(box, <<>>)
            setup == SetupCalls(AsU32(BaseWidth(page) * scale),
                                AsU32(BaseHeight(page) * scale), scale)
                     \o FlipCalls(BaseHeight(page)) \o <<Call("begin_path", <<>>)>>
        IN  /\ replay = [NoReplay EXCEPT !.height = BaseHeight(page), !.zoom = scale,
                                          !.pc = "replay"]
            /\ calls = setup
            /\ ctx = CanvasRun(CanvasDefault(300, 150), setup)
            /\ text_state = TextStateNew
            /\ pdf_data = New.pdf_data
            /\ current_page = New.current_page
            /\ total_pages = New.total_pages
            /\ pdf_file = New.pdf_file
            /\ result = Ok("new", <<>>, <<>>)
            /\ rendered = NotRendered
            /\ conv = NoConv

ReplayOp ==
    /\ replay.pc = "replay"
    /\ replay.n < MaxOps
    /\ \E op \in ReplayOps :
        LET r == render_operation(op, text_state) IN
        \E fails \in FailSets(r.calls) :
            /\ calls' = r.calls
            /\ ctx' = CanvasRun(ctx, Effective(r.calls, fails))
            /\ text_state' = r.ts
            /\ replay' = [replay EXCEPT !.n = @ + 1, !.op = op,
                                        !.fails = fails,
                                        !.cm = ContentMatrix(replay, op, fails),
                                        !.cstack = ContentStack(replay, op)]
    /\ UNCHANGED <<pdf_data, current_page, total_pages, pdf_file, result, rendered, conv>>

\* The loop over contents.parts takes the next part: the part being replayed
\* has no operator left, or a part failed to decode. No surface call is
\* made and the TextState is the one the loop already holds.
PartStart == Op("", <<>>)

ReplayNextPart ==
    /\ replay.pc = "replay"
    /\ calls' = <<>>
    /\ replay' = [replay EXCEPT !.op = PartStart, !.fails = {}]
    /\ UNCHANGED <<pdf_data, current_page, total_pages, pdf_file, result, ctx, text_state,
                   rendered, conv>>

ReplayEnd ==
    /\ replay.pc = "replay"
    /\ calls' = <<Call("restore", <<>>)>>
    /\ ctx' = CanvasRun(ctx, calls')
    /\ replay' = [replay EXCEPT !.pc = "done"]
    /\ UNCHANGED <<pdf_data, current_page, total_pages, pdf_file, result, text_state,
                   rendered, conv>>

NextReplay == ReplayOp \/ ReplayNextPart \/ ReplayEnd

SpecReplay == InitReplay /\ [][NextReplay]_vars

----------------------------------------------------------------------------
(* Colour conversion on a grid of component values k/Den in [0, 1] *)

Grid == 0 .. Den

Colors ==
    {[model |-> "Gray", comps |-> <<g>>] : g \in Grid}
    \cup {[model |-> "Rgb", comps |-> c] : c \in Grid \X Grid \X Grid}
    \cup {[model |-> "Cmyk", comps |-> c] : c \in Grid \X Grid \X Grid \X Grid}
    \cup {[model |-> "Other", comps |-> <<>>]}

InitColor ==
    /\ conv \in {[color |-> c, css |-> <<>>] : c \in Colors}
    /\ pdf_data = New.pdf_data
    /\ current_page = New.current_page
    /\ total_pages = New.total_pages
    /\ pdf_file = New.pdf_file
    /\ result = Ok("new", <<>>, <<>>)
    /\ calls = <<>>
    /\ ctx = CanvasDefault(300, 150)
    /\ text_state = NoTextState
    /\ rendered = NotRendered
    /\ replay = NoReplay

Convert ==
    /\ conv.css = <<>>
    /\ conv' = [conv EXCEPT !.css = color_to_css(conv.color)]
    /\ UNCHANGED <<pdf_data, current_page, total_pages, pdf_file, result, calls, ctx,
                   text_state, rendered, replay>>

NextColor == Convert

SpecColor == InitColor /\ [][NextColor]_vars

----------------------------------------------------------------------------
(* Claims about the operator replay (SpecReplay) and the colour converter  *)
(* (SpecColor)                                                             *)

\* C8: when move-to(x, y) is the first operator of a page of height H
\* rendered at zoom Z, the move-to passes (x, y) to the surface unchanged
\* and the transform then in effect maps (x, y) to the pixel
\* (x*Z, (H - y)*Z), which is where the path point lies; a fill that follows
\* paints that point.
C8_MoveToPixel ==
    LET H == replay.height
        Z == replay.zoom
    IN  /\ (replay.pc = "replay" /\ replay.n = 1 /\ replay.op.op = "MoveTo")
            => LET x == replay.op.args[1]
                   y == replay.op.args[2]
               IN  /\ calls = <<Call("move_to", <<x, y>>)>>
                   /\ MatApply(ctx.ctm, x, y) = <<x * Z, (H - y) * Z>>
                   /\ ctx.path = <<Seg("M", <<x * Z, (H - y) * Z>>)>>
        /\ (replay.pc = "replay" /\ replay.n = 2 /\ replay.op.op = "Fill"
              /\ Len(ctx.painted) = 1 /\ ctx.painted[1].k = "M")
            => \E o \in ReplayOps :
                  /\ o.op = "MoveTo"
                  /\ ctx.painted[1].pts = <<o.args[1] * Z, (H - o.args[2]) * Z>>

\* C8 witness: move-to(1, 2) then fill on a page of height 6 at zoom 2: the
\* painted point is the pixel (2, 8).
C8_Witness ==
    /\ replay.pc = "replay"
    /\ replay.n = 2
    /\ replay.op.op = "Fill"
    /\ replay.height = 6
    /\ replay.zoom = 2
    /\ ctx.painted = <<Seg("M", <<2, 8>>)>>

\* C9 (as claimed): a show-text operator whose byte run decodes to a
\* display string of n characters advances matrix.e by n * F * 0.5, F the
\* current font size, and changes no other TextState field.
C9_TextAdvanceByChars ==
    [][ (replay'.n = replay.n + 1 /\ replay'.op.op = "TextDraw")
        => LET n == Len(to_string_lossy(replay'.op.args)) IN
           text_state' = [text_state EXCEPT
                             !.text_matrix[5] = @ + (n * text_state.font_size) \div 2]
      ]_vars

\* round(num/den * 255) clamped to 0..255, for num/den >= 0
Round255(num, den) ==
    LET r == (2 * num * 255 + den) \div (2 * den) IN
    IF r > 255 THEN 255 ELSE IF r < 0 THEN 0 ELSE r

ReferenceColor(color) ==
    LET c == color.comps IN
    CASE color.model = "Gray" ->
           << Round255(c[1], Den), Round255(c[1], Den), Round255(c[1], Den) >>
      [] color.model = "Rgb" ->
           << Round255(c[1], Den), Round255(c[2], Den), Round255(c[3], Den) >>
      [] color.model = "Cmyk" ->
           << Round255((Den - c[1]) * (Den - c[4]), Den * Den),
              Round255((Den - c[2]) * (Den - c[4]), Den * Den),
              Round255((Den - c[3]) * (Den - c[4]), Den * Den) >>
      [] OTHER -> <<0, 0, 0>>

\* C10 (as claimed): the colour converter equals the rounding reference on
\* the whole grid: gray, rgb and cmyk components are round(. * 255) clamped
\* to [0, 255], any other colour model gives (0, 0, 0).
C10_ColorMatchesReference ==
    conv.css # <<>> => conv.css = ReferenceColor(conv.color)

----------------------------------------------------------------------------
(* Per-operator claims on the replay of one render call. *)

ConstructionOps == {"MoveTo", "LineTo", "CurveTo", "Rect", "Close"}
PaintingOps == {"Stroke", "Fill", "FillAndStroke", "EndPath"}

\* the step replays one operator whose kind is in names
Replayed(names) == replay'.n = replay.n + 1 /\ replay'.op.op \in names

FnNames(cs) == [i \in 1 .. Len(cs) |-> cs[i].fn]

SegKind(name) ==
    CASE name = "MoveTo" -> "M" [] name = "LineTo" -> "L" [] name = "CurveTo" -> "C"
      [] name = "Rect" -> "R" [] OTHER -> "Z"

PaintCalls(name) ==
    CASE name = "Stroke" -> <<"stroke", "begin_path">>
      [] name = "Fill" -> <<"fill", "begin_path">>
      [] name = "FillAndStroke" -> <<"fill", "stroke", "begin_path">>
      [] OTHER -> <<"begin_path">>

\* C11: the path is empty when replay starts and right after every painting
\* operator (stroke, fill, fill-and-stroke, end-path); a construction
\* operator (move/line/curve/rect/close) appends exactly one segment to it;
\* every other step, the move to the next content-stream part included,
\* leaves it as it is. Stroke, fill and fill-and-stroke paint the path as it
\* was before resetting it (fill-and-stroke calls fill, stroke, begin-path in
\* that order); end-path resets and paints nothing.
C11_PathResetAfterPaint ==
    /\ []((replay.pc = "replay" /\ replay.n = 0) => ctx.path = <<>>)
    /\ [][ /\ Replayed(PaintingOps)
              => /\ ctx'.path = <<>>
                 /\ FnNames(calls') = PaintCalls(replay'.op.op)
                 /\ ctx'.painted = IF replay'.op.op = "EndPath" THEN ctx.painted
                                   ELSE ctx.path
           /\ Replayed(ConstructionOps)
              => /\ Len(ctx'.path) = Len(ctx.path) + 1
                 /\ SubSeq(ctx'.path, 1, Len(ctx.path)) = ctx.path
                 /\ Last(ctx'.path).k = SegKind(replay'.op.op)
                 /\ ctx'.painted = ctx.painted
           /\ ~Replayed(PaintingOps \cup ConstructionOps)
              => ctx'.path = ctx.path /\ ctx'.painted = ctx.painted
         ]_vars

\* C11 witness: two construction operators then fill-and-stroke: the two
\* segments were painted and the path is empty again.
C11_Witness ==
    /\ replay.pc = "replay"
    /\ replay.n = 3
    /\ replay.op.op = "FillAndStroke"
    /\ FnNames(calls) = <<"fill", "stroke", "begin_path">>
    /\ Len(ctx.painted) = 2
    /\ ctx.path = <<>>

C14_ShowTextCalls ==
    [][ Replayed({"TextDraw"})
        => LET ts == text_state
               str == to_string_lossy(replay'.op.args)
           IN  /\ calls' = << Call("save", <<>>), Call("transform", ts.text_matrix) >>
                            \o (IF ts.horizontal_scaling # 100
                                THEN << Call("scale", <<ts.horizontal_scaling \div 100, 1>>) >>
                                ELSE <<>>)
                            \o (IF ts.text_rise # 0
                                THEN << Call("translate", <<0, ts.text_rise>>) >>
                                ELSE <<>>)
                            \o << CallT("fill_text", str, <<0, 0>>), Call("restore", <<>>) >>
               /\ ctx'.stack = ctx.stack
               /\ ctx'.ctm = ctx.ctm
               /\ text_state'.text_matrix[5]
                    = ts.text_matrix[5] + (StrLen(str) * ts.font_size) \div 2
      ]_vars

\* C14 witness: with rise 2 set, a show-text whose transform, translate and
\* fill_text calls all failed: five calls were issued and e has advanced.
C14_Witness ==
    /\ replay.pc = "replay"
    /\ replay.n = 2
    /\ replay.op.op = "TextDraw"
    /\ replay.fails = {"transform", "translate", "fill_text"}
    /\ FnNames(calls) = <<"save", "transform", "translate", "fill_text", "restore">>
    /\ text_state.text_matrix[5] = 12
    /\ Len(ctx.stack) = 1

\* C15: a text-newline operator sets matrix.e to 0 and matrix.f to its
\* previous value minus the current leading; a, b, c, d and every other
\* TextState field stay as they were, and no surface call is issued.
C15_TextNewline ==
    [][ Replayed({"TextNewline"})
        => /\ text_state' = [text_state EXCEPT
                                !.text_matrix = << @[1], @[2], @[3], @[4], 0,
                                                   @[6] - text_state.text_leading >>]
           /\ calls' = <<>>
           /\ ctx' = ctx
      ]_vars

\* C15 witness: the matrix was set to [1,0,0,1,3,5], then a newline: e is
\* 0 and f is 5 - leading.
C15_Witness ==
    /\ replay.pc = "replay"
    /\ replay.n = 2
    /\ replay.op.op = "TextNewline"
    /\ text_state.text_matrix = <<1, 0, 0, 1, 0, 5 - text_state.text_leading>>
    /\ calls = <<>>

\* scale(zoom) o translate(0, pageHeight) o scale(1, -1)
BaseTransform ==
    MatMul(MatMul(<<replay.zoom, 0, 0, replay.zoom, 0, 0>>, <<1, 0, 0, 1, 0, replay.height>>),
           <<1, 0, 0, -1, 0, 0>>)

\* C16 (as claimed): throughout the replay, for every operator sequence, the
\* surface transform is the base transform scale(zoom) o translate(0, H) o
\* scale(1, -1) composed with what the content concatenated inside its open
\* push scopes; a pop with no open push changes nothing.
C16_BaseTransformFixed ==
    replay.pc = "replay" => ctx.ctm = MatMul(BaseTransform, replay.cm)

\* C19: throughout a render call, whatever operators are replayed (the
\* set-leading and set-horizontal-scaling operators included), leading is 0
\* and horizontal scaling is 100; so a text-newline leaves matrix.f as it
\* was, and no show-text issues a scale call.
C19_LeadingAndScalingConstant ==
    /\ [](replay.pc # "off"
            => /\ text_state.text_leading = 0
               /\ text_state.horizontal_scaling = 100
               /\ replay.op.op = "TextDraw" => \A i \in 1 .. Len(calls) : calls[i].fn # "scale")
    /\ [][ Replayed({"TextNewline"})
           => text_state'.text_matrix[6] = text_state.text_matrix[6] ]_vars

\* C19 witness: a set-leading operator with operand 14 has just been
\* replayed as the second operator: leading is 0, scaling 100.
C19_Witness ==
    /\ replay.pc = "replay"
    /\ replay.n = 2
    /\ replay.op = Op("Leading", <<14>>)
    /\ text_state.text_leading = 0
    /\ text_state.horizontal_scaling = 100

\* C20: a push or pop graphics-state operator makes its one surface call
\* (save, restore) and leaves every TextState field as it was; the surface's
\* own font is what the pop restores.
C20_PushPopKeepTextState ==
    [][ /\ Replayed({"Save", "Restore"}) => text_state' = text_state
        /\ Replayed({"Save"}) => (calls' = <<Call("save", <<>>)>> /\ ctx'.font = ctx.font)
        /\ Replayed({"Restore"})
           => /\ calls' = <<Call("restore", <<>>)>>
              /\ ctx.stack # <<>> => ctx'.font = Last(ctx.stack).font
      ]_vars

\* C20 witness: push, set font size 24, pop: the TextState font size is
\* still 24 while the surface's font is back to its value before the push.
C20_Witness ==
    /\ replay.pc = "replay"
    /\ replay.n = 3
    /\ replay.op.op = "Restore"
    /\ replay.cstack = <<>>
    /\ Len(ctx.stack) = 1
    /\ text_state.font_size = 24
    /\ ctx.font = 10

----------------------------------------------------------------------------
(* Claims on the public operations, continued. *)

\* the TextState with which part k of the page is replayed: a fresh one for
\* the first part, otherwise the one left by part k - 1, which is the one it
\* was given when it did not decode
RECURSIVE TsBeforePart(_, _)
TsBeforePart(page, k) ==
    IF k = 1 THEN TextStateNew
    ELSE LET prev == page.parts[k - 1]
             before == TsBeforePart(page, k - 1)
         IN  IF GoodPart(prev) THEN replay_operations(prev.items, Emit(<<>>, before)).ts
             ELSE before

PartCalls(page, k) ==
    IF GoodPart(page.parts[k])
    THEN replay_operations(page.parts[k].items, Emit(<<>>, TsBeforePart(page, k))).calls
    ELSE <<>>

\* C13: one TextState serves all parts of a render call. The surface calls
\* of a successful render, between the set-up and the final restore, are
\* those of part 1, part 2, ... in document order, each part's operators in
\* stream order, part k + 1 replayed from the TextState that part k (or the
\* nearest earlier part that decoded) left; the TextState at the end is the
\* one the last part left.
C13_TextStateAcrossParts ==
    (RenderOk /\ RenderedPage.has_contents)
    => /\ SubSeq(calls, 10, Len(calls) - 1)
            = Flatten([k \in 1 .. Len(RenderedPage.parts) |-> PartCalls(RenderedPage, k)])
       /\ text_state = TsBeforePart(RenderedPage, Len(RenderedPage.parts) + 1)

\* C13 witness: a page whose first part sets font size 10 and shows two
\* characters, and whose fourth part shows text again, has been rendered:
\* the second show-text was placed at e = 10 and the size is still 10.
C13_Witness ==
    /\ RenderOk
    /\ Len(RenderedPage.parts) = 4
    /\ Contains(calls, <<Call("transform", <<1, 0, 0, 1, 10, 0>>)>>)
    /\ text_state.font_size = 10
    /\ text_state.text_matrix[5] = 20

\* C17: in every reachable state currentPage = 0 or currentPage <
\* totalPages, and currentPage changes only in a step that is a successful
\* setCurrentPage or a successful load.
C17_CurrentPageInRange ==
    /\ [](current_page = 0 \/ current_page < total_pages)
    /\ [][ current_page' # current_page
           => (result'.status = "ok" /\ result'.op \in {"setCurrentPage", "loadPdf"})
         ]_vars

\* C17 witness: page 1 of a two-page document was selected and a later load
\* failed: currentPage is still 1, below totalPages = 2.
C17_Witness ==
    /\ result.op = "loadPdf"
    /\ result.status = "err"
    /\ current_page = 1
    /\ total_pages = 2

\* C18: totalPages > 0 only while a parsed document is held, so renderPage
\* and pageDimensions never return "PDF not loaded": with no document held
\* they return the range error for every index.
C18_PagesImplyDocument ==
    /\ total_pages > 0 => pdf_file # <<>>
    /\ result.err # "PDF not loaded"
    /\ (pdf_file = <<>> /\ result.op \in {"renderPage", "getPageDimensions"})
         => (result.status = "err" /\ result.err = "Page number out of range")

\* C18 witness: renderPage of page 0 before any successful load returned
\* the range error.
C18_Witness ==
    /\ pdf_file = <<>>
    /\ total_pages = 0
    /\ result.op = "renderPage"
    /\ result.arg[1] = 0
    /\ result.err = "Page number out of range"

====
